---- MODULE Spec2Model ----
(***************************************************************************)
(* Model of scripts/face-details.py: FaceRestorerYolo ("Face HiRes").      *)
(* restore() detects faces, and for every accepted detection re-runs the   *)
(* generation pipeline as an inpainting pass on the shared processing      *)
(* context p, chaining the passes' output images.                          *)
(*                                                                         *)
(* Numbers: relative sizes are exact rationals [num, den]; denoising       *)
(* strengths and scores are in hundredths; raw detector coordinates are in *)
(* tenths of a pixel (the adapter truncates them to integers).             *)
(***************************************************************************)
EXTENDS Integers, Sequences, FiniteSets, TLC

\* ---------------------------------------------------------------- bounds
MaxFaces == 2       \* longest raw detection list the detector yields
MaxCalls == 2       \* top-level restore() calls made on the same context
MaxNested == 1      \* restore() calls one pipeline pass makes on the context
MaxSide == 3        \* largest width and height of an image rendered pixel by pixel

\* -------------------------------------------------------------- images
\* An image is its representation (None / numpy ndarray / PIL image), its
\* pixel content (an identifier) and its dimensions.
NoneImg == [kind |-> "None", px |-> 0, w |-> 0, h |-> 0]
InputImg == [kind |-> "ndarray", px |-> 0, w |-> 100, h |-> 100]

\* Image.fromarray(np_image), line 91
FromArray(a) == [a EXCEPT !.kind = "PIL"]

\* np.array(image), line 133
NpArray(i) == [i EXCEPT !.kind = "ndarray"]

\* Python None for list-valued attributes, and a list value
NoneList == [none |-> TRUE, items |-> <<>>]
ListOf(s) == [none |-> FALSE, items |-> s]

\* result of processing.process_images_inner: None, or an object with .images
PPNone == [none |-> TRUE, images |-> NoneList]
Processed(imgs) == [none |-> FALSE, images |-> imgs]

\* ---------------------------------------------------------- detections
NoMask == [present |-> FALSE, w |-> 0, h |-> 0, box |-> <<0, 0, 0, 0>>]

\* lines 68-71: Image.new('L', image.size, 0) with draw.rectangle(box, fill="white")
BuildMask(image, box) == [present |-> TRUE, w |-> image.w, h |-> image.h, box |-> box]

\* line 61: boxes.xyxy.detach().int(): truncation of the raw coordinates
TruncBox(xyxy) == [k \in 1..4 |-> xyxy[k] \div 10]

\* --- pixel level: an image is [mode, w, h, px], px a function on the pixel
\* coordinates (0..w-1) \X (0..h-1)
Pixels(w, h) == (0..(w - 1)) \X (0..(h - 1))

\* line 69: Image.new(mode, size, colour)
NewCanvas(mode, size, colour) ==
    [mode |-> mode, w |-> size[1], h |-> size[2],
     px |-> [xy \in Pixels(size[1], size[2]) |-> colour]]

\* the ink PIL draws with for a colour name in a given mode
Ink(mode, colour) ==
    IF mode = "L" THEN (IF colour = "white" THEN 255 ELSE 0)
    ELSE (IF colour = "white" THEN <<255, 255, 255>> ELSE <<0, 0, 0>>)

\* one scanline of a filled shape: pixels x0..x1 of row y, those outside the
\* image left out
RECURSIVE HLine(_, _, _, _, _)
HLine(px, x0, x1, y, ink) ==
    IF x0 > x1 THEN px
    ELSE HLine(IF <<x0, y>> \in DOMAIN px THEN [px EXCEPT ![<<x0, y>>] = ink] ELSE px,
               x0 + 1, x1, y, ink)

RECURSIVE FillRows(_, _, _, _, _, _)
FillRows(px, x0, x1, y0, y1, ink) ==
    IF y0 > y1 THEN px
    ELSE FillRows(HLine(px, x0, x1, y0, ink), x0, x1, y0 + 1, y1, ink)

\* line 71: draw.rectangle(box, fill=colour, outline=None, width=0): PIL fills
\* the scanlines box[1]..box[3] from box[0] to box[2], both ends included
DrawRectangle(img, box, colour) ==
    [img EXCEPT !.px = FillRows(@, box[1], box[3], box[2], box[4], Ink(img.mode, colour))]

DrawTarget_Source(store) == 1

\* line 70: ImageDraw.Draw(mask_image) draws on the object allocated last
DrawTarget(store) == Len(store)

\* lines 68-71 on the object store (a sequence of images, an object being its
\* index): image.copy() and Image.new('L', image.size, 0) allocate one object
\* each, the rectangle is drawn on the drawing target
MaskObjects(store, image, box) ==
    LET copied    == Append(store, image)
        allocated == Append(copied, NewCanvas("L", <<image.w, image.h>>, 0))
        t         == DrawTarget(allocated)
    IN  [allocated EXCEPT ![t] = DrawRectangle(@, box, "white")]

\* line 66: (box[2] - box[0]) * (box[3] - box[1]) / (image.width * image.height)
RelSize(image, box) ==
    [num |-> (box[3] - box[1]) * (box[4] - box[2]), den |-> image.w * image.h]

\* lines 63-72: one YoLoResult per (score, box)
YoLoResult(image, det, mask) ==
    LET box == TruncBox(det.xyxy)
    IN  [score |-> det.conf,
         box   |-> box,
         mask  |-> IF mask THEN BuildMask(image, box) ELSE NoMask,
         size  |-> RelSize(image, box)]

\* a permutation of 1..Len(s) that orders s by descending score
ByScore(s) ==
    CHOOSE f \in [1..Len(s) -> 1..Len(s)] :
        /\ \A i, j \in 1..Len(s) : i # j => f[i] # f[j]
        /\ \A i, j \in 1..Len(s) : i < j => s[f[i]].score >= s[f[j]].score

Predict_SortedByScore(image, prediction, mask) ==
    LET dets == IF prediction.hasBoxes THEN prediction.dets ELSE <<>>
        res  == [i \in 1..Len(dets) |-> YoLoResult(image, dets[i], mask)]
    IN  [i \in 1..Len(res) |-> res[ByScore(res)[i]]]

\* lines 26-73, predict(): the detector's predictions, in the detector's order
Predict(image, prediction, mask) ==
    LET dets == IF prediction.hasBoxes THEN prediction.dets ELSE <<>>
    IN  [i \in 1..Len(dets) |-> YoLoResult(image, dets[i], mask)]

\* lines 42, 57-58: where the detector lives after a predict() call
DeviceAfterPredict(offload) == IF offload THEN "cpu" ELSE "device"

\* Raw detections the detector may yield on the 100x100 input (area 10000):
\* box areas 1, 2, 8000 and 8100, i.e. relative sizes 0.0001, 0.0002, 0.8 and
\* 0.81.
RawDets ==
    { [xyxy |-> <<0, 0, 19, 15>>,     conf |-> 91],
      [xyxy |-> <<10, 10, 37, 29>>,   conf |-> 55],
      [xyxy |-> <<0, 0, 1000, 805>>,  conf |-> 88],
      [xyxy |-> <<0, 0, 1000, 819>>,  conf |-> 64] }

RECURSIVE SeqsUpTo(_, _)
SeqsUpTo(S, n) ==
    IF n = 0 THEN {<<>>}
    ELSE LET shorter == SeqsUpTo(S, n - 1)
             longest == {t \in shorter : Len(t) = n - 1}
             fresh(s) == S \ {s[i] : i \in 1..Len(s)}
         IN  shorter \cup UNION {{Append(s, x) : x \in fresh(s)} : s \in longest}

\* self.model.predict(...) outputs: a prediction without boxes, or up to
\* MaxFaces different boxes in the detector's native order
RawPredictions ==
    {[hasBoxes |-> FALSE, dets |-> <<>>]}
        \cup {[hasBoxes |-> TRUE, dets |-> d] : d \in SeqsUpTo(RawDets, MaxFaces)}

\* the images predict() is given in the pixel-level runs
SourceImages ==
    {[mode |-> "RGB", w |-> w, h |-> h,
      px |-> [xy \in Pixels(w, h) |-> <<7, 7, 7>>]] : w, h \in 1..MaxSide}

\* raw detections of the pixel-level runs: one pixel at the origin, a block
\* off the origin, a row that reaches past the right edge, a column
MaskDets ==
    { [xyxy |-> <<5, 3, 9, 8>>,                    conf |-> 90],
      [xyxy |-> <<10, 12, 27, 29>>,                conf |-> 80],
      [xyxy |-> <<0, 10, 10 * MaxSide + 4, 19>>,   conf |-> 70],
      [xyxy |-> <<12, 0, 18, 10 * MaxSide - 1>>,   conf |-> 60] }

\* ------------------------------------------------------- model loading
ModelName == "yolov8n-face.pt"

\* what modelloader.load_models may return
ModelFileLists == { <<>>, <<"other.pt">>, <<"other.pt", "yolov8n-face.pt">> }

\* line 79: self.model_name in f
NameIn(f) == f = ModelName

\* lines 78-82: the last matching file is the one loaded
RECURSIVE LoadFrom(_, _)
LoadFrom(m, files) ==
    IF files = <<>> THEN m
    ELSE LoadFrom(IF NameIn(Head(files)) THEN Head(files) ELSE m, Tail(files))

\* lines 75-82, load(): only queries the loader while no model is loaded
Load(m, files) == IF m = "None" THEN LoadFrom(m, files) ELSE m

\* ------------------------------------------------- processing context
\* p.__dict__: `has` is the set of attributes present; an absent attribute
\* keeps the default below so that equal dictionaries are equal values.
EmptyDict ==
    [has |-> {}, facehires |-> FALSE, init_images |-> NoneList,
     image_mask |-> NoneList, inpaint_full_res |-> FALSE,
     inpainting_mask_invert |-> 0, inpainting_fill |-> 0,
     denoising_strength |-> 0, mask_blur |-> 0,
     inpaint_full_res_padding |-> 0, restore_faces |-> FALSE,
     overlay_images |-> NoneList]

HasAttr(d, k) == k \in d.has
SetAttr(d, k, v) == [d EXCEPT !.has = @ \cup {k}, ![k] = v]
\* dict.get(k, default)
Get(d, k, default) == IF k \in d.has THEN d[k] ELSE default

\* contexts a caller hands to restore(): a text-to-image request without a
\* denoising strength, and an image-to-image request with its own settings
CallerImg == [kind |-> "PIL", px |-> 50, w |-> 100, h |-> 100]
Txt2ImgDict ==
    SetAttr(SetAttr(EmptyDict, "restore_faces", TRUE), "overlay_images", NoneList)
Img2ImgDict ==
    SetAttr(SetAttr(SetAttr(SetAttr(SetAttr(EmptyDict,
        "restore_faces", TRUE),
        "denoising_strength", 50),
        "mask_blur", 4),
        "init_images", ListOf(<<CallerImg>>)),
        "overlay_images", ListOf(<<CallerImg>>))

CallerContexts ==
    { [cls |-> "StableDiffusionProcessingTxt2Img", dict |-> Txt2ImgDict],
      [cls |-> "StableDiffusionProcessingImg2Img", dict |-> Img2ImgDict] }

\* shared.opts as the caller may have it when restore() is called
OptionStores ==
    { [mask_apply_overlay |-> FALSE, face_restoration_unload |-> TRUE],
      [mask_apply_overlay |-> TRUE,  face_restoration_unload |-> FALSE] }

VARIABLES
    model,                \* self.model: "None" or the loaded model file
    modelDevice,          \* where the detector currently lives
    opts,                 \* shared.opts: mask_apply_overlay, face_restoration_unload
    p,                    \* p.__dict__ of the caller's processing context
    p_cls,                \* p.__class__
    pc,                   \* position of the current restore() call
    np_image,             \* restore's argument / return variable
    image,                \* working image
    faces,                \* result of predict()
    idx,                  \* position of the for loop in faces
    pp,                   \* result of the last pipeline pass
    orig_apply_overlay,   \* backups, lines 97-99
    orig_p,
    orig_cls,
    ret,                  \* value returned by the last finished call
    calls,                \* history: top-level calls started
    pre,                  \* history: argument, context, option and model at call entry
    raw,                  \* history: what the detector yielded in this call
    nLoad,                \* history: loader invocations of this call
    nPredict,             \* history: detector invocations of this call
    log,                  \* history: pipeline invocations of this call
    nested,               \* history: restore() calls made by the running pass
    depth,                \* history: pipeline invocations now on the call stack
    heap,                 \* images appended in place to the caller's overlay list
    last,                 \* history: how the previous top-level call ended
    mSrc,                 \* pixel level: the image predict() was given
    mDets,                \* pixel level: the detections predict() goes through
    mFlag,                \* pixel level: predict's mask argument
    mStore,               \* pixel level: the image objects; the source is object 1
    mResult,              \* pixel level: predict's result list so far
    mMasks                \* pixel level: the object each result's mask refers to

vars == <<model, modelDevice, opts, p, p_cls, pc, np_image, image, faces, idx,
          pp, orig_apply_overlay, orig_p, orig_cls, ret, calls, pre, raw,
          nLoad, nPredict, log, nested, depth, heap, last,
          mSrc, mDets, mFlag, mStore, mResult, mMasks>>

maskVars == <<mSrc, mDets, mFlag, mStore, mResult, mMasks>>

restoreVars == <<model, modelDevice, opts, p, p_cls, pc, np_image, image, faces,
                 idx, pp, orig_apply_overlay, orig_p, orig_cls, ret, calls, pre,
                 raw, nLoad, nPredict, log, nested, depth, heap, last>>

\* the backups of a restore() frame that has not reached line 97
NoBackups ==
    /\ orig_apply_overlay' = FALSE
    /\ orig_p' = EmptyDict
    /\ orig_cls' = "None"

\* the locals of a restore() frame that returns before line 91
FreshLocals ==
    /\ image' = NoneImg
    /\ faces' = <<>>
    /\ idx' = 1
    /\ pp' = [none |-> TRUE, images |-> NoneList]
    /\ NoBackups

NoPrediction == [hasBoxes |-> FALSE, dets |-> <<>>]

\* lines 20-24: a fresh FaceRestorerYolo, and a caller's context and options
RestoreInit ==
    /\ model = "None"
    /\ modelDevice = "cpu"
    /\ opts \in OptionStores
    /\ \E c \in CallerContexts : p = c.dict /\ p_cls = c.cls
    /\ pc = "idle"
    /\ np_image = NoneImg
    /\ image = NoneImg
    /\ faces = <<>>
    /\ idx = 1
    /\ pp = PPNone
    /\ orig_apply_overlay = FALSE
    /\ orig_p = EmptyDict
    /\ orig_cls = "None"
    /\ ret = NoneImg
    /\ calls = 0
    /\ pre = [np |-> NoneImg, p |-> EmptyDict, cls |-> "None", overlay |-> FALSE,
              model |-> "None", heap |-> <<>>]
    /\ raw = NoPrediction
    /\ nLoad = 0
    /\ nPredict = 0
    /\ log = <<>>
    /\ nested = 0
    /\ depth = 0
    /\ heap = <<>>
    /\ last = "none"

\* no pixel-level run
NoMaskRun ==
    /\ mSrc = NoneImg
    /\ mDets = <<>>
    /\ mFlag = FALSE
    /\ mStore = <<>>
    /\ mResult = <<>>
    /\ mMasks = <<>>

Init == RestoreInit /\ NoMaskRun


\* ------------------------------------------------- external collaborators
\* processing_class.switch_class(p, new_class): retypes the context in place,
\* keeping every field value it already has
SwitchClass(d, new_class) == [cls |-> new_class, dict |-> d]

\* processing_class.switch_class(p, new_class, dct): retypes the context in
\* place and re-applies dct as a full overwrite
SwitchClassFrom(d, new_class, dct) == [cls |-> new_class, dict |-> dct]

\* ------------------------------------------------------------ restore()
Backup_AfterGuard(d) == SetAttr(d, "facehires", TRUE)

\* line 98: orig_p = p.__dict__.copy(), taken before the guard is set
Backup(d) == d

ForceOverlay_Skipped(o) == o

\* line 103: shared.opts.data['mask_apply_overlay'] = True
ForceOverlay(o) == [o EXCEPT !.mask_apply_overlay = TRUE]

SetGuard_Missing(d) == d

\* line 102: p.facehires = True
SetGuard(d) == SetAttr(d, "facehires", TRUE)

\* restore() is called by a caller that is not inside an earlier call
CanCall == pc = "idle" /\ calls < MaxCalls

ShortCircuit_NoGuardCheck(np, d) == np = NoneImg

ShortCircuit_NoNullCheck(np, d) == HasAttr(d, "facehires")

LoaderCalls_Always(m) == 1

\* lines 76-77: load() asks the loader only under `if self.model is None`
LoaderCalls(m) == IF m = "None" THEN 1 ELSE 0

\* line 77: what the loader may answer; it is asked only while no model is loaded
LoaderAnswers(m) == IF m = "None" THEN ModelFileLists ELSE {<<>>}

\* line 85: np_image is None or hasattr(p, 'facehires')
ShortCircuit(np, d) == np = NoneImg \/ HasAttr(d, "facehires")

Rejected_NoUpperBound(face) ==
    \/ ~face.mask.present
    \/ face.size.num * 10000 < 2 * face.size.den

Rejected_ExclusiveLower(face) ==
    \/ ~face.mask.present
    \/ face.size.num * 10000 <= 2 * face.size.den
    \/ face.size.num * 10 > 8 * face.size.den

\* lines 107-111: the detections the loop skips
Rejected(face) ==
    \/ ~face.mask.present
    \/ face.size.num * 10000 < 2 * face.size.den
    \/ face.size.num * 10 > 8 * face.size.den

\* history written when a call starts
StartCall(np) ==
    /\ calls' = calls + 1
    /\ pre' = [np |-> np, p |-> p, cls |-> p_cls,
               overlay |-> opts.mask_apply_overlay, model |-> model,
               heap |-> heap]
    /\ np_image' = np
    /\ log' = <<>>

\* lines 84-86: null image or guard already set: return the image at once
RestoreShortCircuit ==
    /\ CanCall
    /\ \E np \in {NoneImg, InputImg} :
        /\ ShortCircuit(np, p)
        /\ StartCall(np)
        /\ ret' = np
    /\ pc' = "done"
    /\ raw' = NoPrediction
    /\ nLoad' = 0
    /\ nPredict' = 0
    /\ FreshLocals
    /\ UNCHANGED <<model, modelDevice, opts, p, p_cls>>
    /\ UNCHANGED <<nested, depth>>
    /\ UNCHANGED heap
    /\ UNCHANGED last
    /\ UNCHANGED maskVars

\* the unavailable model is used all the same: self.model.to(...) raises
RestoreModelUnavailable_NoCheck ==
    /\ CanCall
    /\ \E np \in {NoneImg, InputImg}, files \in LoaderAnswers(model) :
        /\ ~ShortCircuit(np, p)
        /\ Load(model, files) = "None"
        /\ model' = Load(model, files)
        /\ StartCall(np)
        /\ image' = FromArray(np)
    /\ pc' = "raised"
    /\ raw' = NoPrediction
    /\ nLoad' = LoaderCalls(model)
    /\ nPredict' = 1
    /\ faces' = <<>>
    /\ idx' = 1
    /\ pp' = PPNone
    /\ NoBackups
    /\ UNCHANGED <<modelDevice, opts, p, p_cls, ret>>
    /\ UNCHANGED <<nested, depth>>
    /\ UNCHANGED heap
    /\ UNCHANGED last
    /\ UNCHANGED maskVars

\* lines 84-90: the loader yields no matching file: log an error, return the image
RestoreModelUnavailable ==
    /\ CanCall
    /\ \E np \in {NoneImg, InputImg}, files \in LoaderAnswers(model) :
        /\ ~ShortCircuit(np, p)
        /\ Load(model, files) = "None"
        /\ model' = Load(model, files)
        /\ StartCall(np)
        /\ ret' = np
    /\ pc' = "done"
    /\ raw' = NoPrediction
    /\ nLoad' = LoaderCalls(model)
    /\ nPredict' = 0
    /\ FreshLocals
    /\ UNCHANGED <<modelDevice, opts, p, p_cls>>
    /\ UNCHANGED <<nested, depth>>
    /\ UNCHANGED heap
    /\ UNCHANGED last
    /\ UNCHANGED maskVars

\* the empty detection list is only noticed after the guard has been set
RestoreNoFaces_GuardFirst ==
    /\ CanCall
    /\ \E np \in {NoneImg, InputImg}, files \in LoaderAnswers(model),
          prediction \in RawPredictions :
        /\ ~ShortCircuit(np, p)
        /\ Load(model, files) # "None"
        /\ model' = Load(model, files)
        /\ LET found == Predict(FromArray(np), prediction, TRUE)
           IN  /\ Len(found) = 0
               /\ faces' = found
        /\ image' = FromArray(np)
        /\ raw' = prediction
        /\ StartCall(np)
        /\ ret' = np
    /\ modelDevice' = DeviceAfterPredict(opts.face_restoration_unload)
    /\ pc' = "done"
    /\ nLoad' = LoaderCalls(model)
    /\ nPredict' = 1
    /\ idx' = 1
    /\ pp' = PPNone
    /\ orig_apply_overlay' = opts.mask_apply_overlay
    /\ orig_p' = Backup(p)
    /\ orig_cls' = p_cls
    /\ p' = SetAttr(p, "facehires", TRUE)
    /\ UNCHANGED <<opts, p_cls>>
    /\ UNCHANGED <<nested, depth>>
    /\ UNCHANGED heap
    /\ UNCHANGED last
    /\ UNCHANGED maskVars

\* lines 84-94: the detector finds no face: return the image
RestoreNoFaces ==
    /\ CanCall
    /\ \E np \in {NoneImg, InputImg}, files \in LoaderAnswers(model),
          prediction \in RawPredictions :
        /\ ~ShortCircuit(np, p)
        /\ Load(model, files) # "None"
        /\ model' = Load(model, files)
        /\ LET found == Predict(FromArray(np), prediction, TRUE)
           IN  /\ Len(found) = 0
               /\ faces' = found
        /\ image' = FromArray(np)
        /\ raw' = prediction
        /\ StartCall(np)
        /\ ret' = np
    /\ modelDevice' = DeviceAfterPredict(opts.face_restoration_unload)
    /\ pc' = "done"
    /\ nLoad' = LoaderCalls(model)
    /\ nPredict' = 1
    /\ idx' = 1
    /\ pp' = PPNone
    /\ NoBackups
    /\ UNCHANGED <<opts, p, p_cls>>
    /\ UNCHANGED <<nested, depth>>
    /\ UNCHANGED heap
    /\ UNCHANGED last
    /\ UNCHANGED maskVars

\* lines 84-104: faces found: back up, set the guard, force the overlay
\* option, switch the context to img2img and start the loop
RestoreEnter ==
    /\ CanCall
    /\ \E np \in {NoneImg, InputImg}, files \in LoaderAnswers(model),
          prediction \in RawPredictions :
        /\ ~ShortCircuit(np, p)
        /\ Load(model, files) # "None"
        /\ model' = Load(model, files)
        /\ LET found == Predict(FromArray(np), prediction, TRUE)
           IN  /\ Len(found) > 0
               /\ faces' = found
        /\ image' = FromArray(np)
        /\ raw' = prediction
        /\ StartCall(np)
    /\ modelDevice' = DeviceAfterPredict(opts.face_restoration_unload)
    /\ nLoad' = LoaderCalls(model)
    /\ nPredict' = 1
    /\ orig_apply_overlay' = opts.mask_apply_overlay
    /\ orig_p' = Backup(p)
    /\ orig_cls' = p_cls
    /\ pp' = PPNone
    /\ opts' = ForceOverlay(opts)
    /\ LET sw == SwitchClass(SetGuard(p), "StableDiffusionProcessingImg2Img")
       IN  p' = sw.dict /\ p_cls' = sw.cls
    /\ idx' = 1
    /\ pc' = "loop"
    /\ UNCHANGED ret
    /\ UNCHANGED <<nested, depth>>
    /\ UNCHANGED heap
    /\ UNCHANGED last
    /\ UNCHANGED maskVars

\* lines 106-111: the current detection is skipped
LoopSkip ==
    /\ pc = "loop"
    /\ idx <= Len(faces)
    /\ Rejected(faces[idx])
    /\ idx' = idx + 1
    /\ UNCHANGED <<model, modelDevice, opts, p, p_cls, pc, np_image, image,
                   faces, pp, orig_apply_overlay, orig_p, orig_cls, ret,
                   calls, pre, raw, nLoad, nPredict, log>>
    /\ UNCHANGED <<nested, depth>>
    /\ UNCHANGED heap
    /\ UNCHANGED last
    /\ UNCHANGED maskVars

Configure_FromLiveContext(d, img, face, orig) ==
    LET d1 == SetAttr(d,  "init_images", ListOf(<<img>>))
        d2 == SetAttr(d1, "image_mask", ListOf(<<face.mask>>))
        d3 == SetAttr(d2, "inpaint_full_res", TRUE)
        d4 == SetAttr(d3, "inpainting_mask_invert", 0)
        d5 == SetAttr(d4, "inpainting_fill", 1)
        d6 == SetAttr(d5, "denoising_strength", Get(d, "denoising_strength", 30))
        d7 == SetAttr(d6, "mask_blur", 10)
        d8 == SetAttr(d7, "inpaint_full_res_padding", 15)
    IN  SetAttr(d8, "restore_faces", TRUE)

\* lines 112-121: the context as configured for one region
Configure(d, img, face, orig) ==
    LET d1 == SetAttr(d,  "init_images", ListOf(<<img>>))
        d2 == SetAttr(d1, "image_mask", ListOf(<<face.mask>>))
        d3 == SetAttr(d2, "inpaint_full_res", TRUE)
        d4 == SetAttr(d3, "inpainting_mask_invert", 0)
        d5 == SetAttr(d4, "inpainting_fill", 1)
        d6 == SetAttr(d5, "denoising_strength", Get(orig, "denoising_strength", 30))
        d7 == SetAttr(d6, "mask_blur", 10)
        d8 == SetAttr(d7, "inpaint_full_res_padding", 15)
    IN  SetAttr(d8, "restore_faces", TRUE)

\* lines 106-123: the current detection is accepted: configure the context
\* and call processing.process_images_inner(p)
LoopConfigure ==
    /\ pc = "loop"
    /\ idx <= Len(faces)
    /\ ~Rejected(faces[idx])
    /\ p' = Configure(p, image, faces[idx], orig_p)
    /\ log' = Append(log, [face |-> idx,
                           ctx |-> Configure(p, image, faces[idx], orig_p),
                           cls |-> p_cls,
                           overlay |-> opts.mask_apply_overlay,
                           out |-> PPNone,
                           returned |-> FALSE])
    /\ pc' = "pipeline"
    /\ UNCHANGED <<model, modelDevice, opts, p_cls, np_image, image, faces,
                   idx, pp, orig_apply_overlay, orig_p, orig_cls, ret, calls,
                   pre, raw, nLoad, nPredict>>
    /\ nested' = 0
    /\ depth' = 1
    /\ UNCHANGED heap
    /\ UNCHANGED last
    /\ UNCHANGED maskVars


\* what one pipeline pass may hand back: None, an object without images, an
\* empty image list, one image, or the image followed by a second one
PassOutcomes == {"None", "NoImages", "Empty", "One", "Two"}

\* the k-th pass's output for outcome o
PassResult(o, k, img) ==
    LET first  == [kind |-> "PIL", px |-> k, w |-> img.w, h |-> img.h]
        second == [kind |-> "PIL", px |-> k + MaxFaces, w |-> img.w, h |-> img.h]
    IN  CASE o = "None"     -> PPNone
          [] o = "NoImages" -> Processed(NoneList)
          [] o = "Empty"    -> Processed(ListOf(<<>>))
          [] o = "One"      -> Processed(ListOf(<<first>>))
          [] o = "Two"      -> Processed(ListOf(<<first, second>>))

\* what one pipeline pass may do to the context: accumulate the overlay of
\* its base image, and possibly overwrite the inpainting settings as well
PassEffects == {"overlay", "fields", "inplace"}

\* The list object the caller's context holds in overlay_images. A dictionary
\* holds references: the object is known by the value it was created with,
\* which no other list of the model has, and what has been appended to it in
\* place since is kept in heap.
CallerList == ListOf(<<CallerImg>>)

\* the present content of the object a dictionary's overlay_images refers to
Deref(d, h) ==
    IF d.overlay_images = CallerList
    THEN ListOf(d.overlay_images.items \o h)
    ELSE d.overlay_images

\* a pass can append in place only to a list the context already holds
CanAppendInPlace(d) == HasAttr(d, "overlay_images") /\ ~d.overlay_images.none

\* the heap after a pass with effect e on context d with base image img
HeapAfter(h, d, e, img) ==
    IF e = "inplace" /\ d.overlay_images = CallerList THEN Append(h, img) ELSE h

PassMutation(d, e) ==
    LET d1 == SetAttr(d, "overlay_images", d.init_images)
    IN  IF e = "overlay" THEN d1
        ELSE IF e = "inplace" THEN d
        ELSE SetAttr(SetAttr(SetAttr(SetAttr(d1,
                "denoising_strength", 75),
                "mask_blur", 4),
                "inpaint_full_res", FALSE),
                "image_mask", NoneList)

\* line 123: processing.process_images_inner(p) returns
PipelineReturn ==
    /\ pc = "pipeline"
    /\ \E o \in PassOutcomes, e \in PassEffects :
        /\ e = "inplace" => CanAppendInPlace(p)
        /\ heap' = HeapAfter(heap, p, e, image)
        /\ pp' = PassResult(o, Len(log), image)
        /\ p' = PassMutation(p, e)
        /\ log' = [log EXCEPT ![Len(log)].out = PassResult(o, Len(log), image),
                              ![Len(log)].returned = TRUE]
    /\ pc' = "returned"
    /\ UNCHANGED <<model, modelDevice, opts, p_cls, np_image, image, faces,
                   idx, orig_apply_overlay, orig_p, orig_cls, ret, calls, pre,
                   raw, nLoad, nPredict>>
    /\ nested' = 0
    /\ depth' = 0
    /\ UNCHANGED last
    /\ UNCHANGED maskVars

\* the image a running pass hands to restore() when it restores faces
NestedImages == {NoneImg, [kind |-> "ndarray", px |-> 0, w |-> 100, h |-> 100]}

\* lines 84-86 entered from inside line 123: the running pass calls restore()
\* on the same context. With the guard set (or a null image) the call returns
\* its argument at once; otherwise it goes on to its own passes, one level
\* deeper on the call stack.
NestedRestore ==
    /\ pc = "pipeline"
    /\ nested < MaxNested
    /\ nested' = nested + 1
    /\ \E np \in NestedImages :
        depth' = IF ShortCircuit(np, p) THEN depth ELSE depth + 1
    /\ UNCHANGED <<model, modelDevice, opts, p, p_cls, pc, np_image, image,
                   faces, idx, pp, orig_apply_overlay, orig_p, orig_cls, ret,
                   calls, pre, raw, nLoad, nPredict, log>>
    /\ UNCHANGED heap
    /\ UNCHANGED last
    /\ UNCHANGED maskVars

\* line 123: processing.process_images_inner(p) raises; restore() has no
\* handler, so the exception leaves restore() at once
\* the exception is caught and the loop goes on
PipelineRaise_Swallowed ==
    /\ pc = "pipeline"
    /\ pc' = "returned"
    /\ UNCHANGED <<model, modelDevice, opts, p, p_cls, np_image, image, faces,
                   idx, pp, orig_apply_overlay, orig_p, orig_cls, ret, calls,
                   pre, raw, nLoad, nPredict, log>>
    /\ nested' = 0
    /\ depth' = 0
    /\ UNCHANGED heap
    /\ UNCHANGED last
    /\ UNCHANGED maskVars

\* line 123 raises: no handler in restore(), the exception leaves the call
PipelineRaise ==
    /\ pc = "pipeline"
    /\ pc' = "raised"
    /\ UNCHANGED <<model, modelDevice, opts, p, p_cls, np_image, image, faces,
                   idx, pp, orig_apply_overlay, orig_p, orig_cls, ret, calls,
                   pre, raw, nLoad, nPredict, log>>
    /\ nested' = 0
    /\ depth' = 0
    /\ UNCHANGED heap
    /\ UNCHANGED last
    /\ UNCHANGED maskVars

\* pp is not None and pp.images is not None and len(pp.images) > 0
HasImages(r) == ~r.none /\ ~r.images.none /\ Len(r.images.items) > 0

NextImage_Unchained(img, r) == img

\* lines 125-126: the working image after a pass
NextImage(img, r) == IF HasImages(r) THEN r.images.items[1] ELSE img

\* lines 124-126: after a pass: clear the overlay accumulator, thread the
\* output forward, go on with the next detection
ClearOverlay_Kept(d) == d

\* line 124: p.overlay_images = None
ClearOverlay(d) == SetAttr(d, "overlay_images", NoneList)

LoopAfterPass ==
    /\ pc = "returned"
    /\ p' = ClearOverlay(p)
    /\ image' = NextImage(image, pp)
    /\ idx' = idx + 1
    /\ pc' = "loop"
    /\ UNCHANGED <<model, modelDevice, opts, p_cls, np_image, faces, pp,
                   orig_apply_overlay, orig_p, orig_cls, ret, calls, pre, raw,
                   nLoad, nPredict, log>>
    /\ UNCHANGED <<nested, depth>>
    /\ UNCHANGED heap
    /\ UNCHANGED last
    /\ UNCHANGED maskVars

\* lines 131-134: the value restore() returns after the loop
ReturnValue(np, r) == IF HasImages(r) THEN NpArray(r.images.items[1]) ELSE np

\* lines 128-134: the loop is over: switch the context back from the
\* backups, put the overlay option back, return
RestoreExit ==
    /\ pc = "loop"
    /\ idx > Len(faces)
    /\ LET sw == SwitchClassFrom(p, orig_cls, orig_p)
       IN  p' = sw.dict /\ p_cls' = sw.cls
    /\ opts' = [opts EXCEPT !.mask_apply_overlay = orig_apply_overlay]
    /\ image' = IF HasImages(pp) THEN pp.images.items[1] ELSE image
    /\ np_image' = ReturnValue(np_image, pp)
    /\ ret' = ReturnValue(np_image, pp)
    /\ pc' = "done"
    /\ UNCHANGED <<model, modelDevice, faces, idx, pp, orig_apply_overlay,
                   orig_p, orig_cls, calls, pre, raw, nLoad, nPredict, log>>
    /\ UNCHANGED <<nested, depth>>
    /\ UNCHANGED heap
    /\ UNCHANGED last
    /\ UNCHANGED maskVars

\* line 134 / the propagating exception: the call is over, its frame is
\* gone and the caller goes on
\* how the call that has just ended went: the loader failed (lines 88-90), the
\* loop of lines 106-126 was reached and the call returned (line 134), or
\* anything else (returned at line 85 or 94, or left by an exception)
Ended ==
    IF pc = "done" /\ nLoad = 1 /\ model = "None" THEN "load failed"
    ELSE IF pc = "done" /\ nPredict = 1 /\ Len(faces) > 0 THEN "restored"
    ELSE "other"

CallerResumes ==
    /\ pc \in {"done", "raised"}
    /\ last' = Ended
    /\ pc' = "idle"
    /\ np_image' = NoneImg
    /\ ret' = NoneImg
    /\ FreshLocals
    /\ pre' = [np |-> NoneImg, p |-> EmptyDict, cls |-> "None", overlay |-> FALSE,
               model |-> "None", heap |-> <<>>]
    /\ raw' = NoPrediction
    /\ nLoad' = 0
    /\ nPredict' = 0
    /\ log' = <<>>
    /\ UNCHANGED <<model, modelDevice, opts, p, p_cls, calls>>
    /\ UNCHANGED <<nested, depth>>
    /\ UNCHANGED heap
    /\ UNCHANGED maskVars

Next ==
    \/ RestoreShortCircuit
    \/ RestoreModelUnavailable
    \/ RestoreNoFaces
    \/ RestoreEnter
    \/ LoopSkip
    \/ LoopConfigure
    \/ PipelineReturn
    \/ PipelineRaise
    \/ NestedRestore
    \/ LoopAfterPass
    \/ RestoreExit
    \/ CallerResumes

Spec == Init /\ [][Next]_vars


\* ----------------------------------------- predict(), pixel by pixel
\* predict() is entered with an image, a mask argument and the detector's
\* detections; the image is object 1 of the store
MaskInit ==
    /\ RestoreInit
    /\ mSrc \in SourceImages
    /\ mDets \in SeqsUpTo(MaskDets, MaxFaces)
    /\ mFlag \in BOOLEAN
    /\ mStore = <<mSrc>>
    /\ mResult = <<>>
    /\ mMasks = <<>>

\* lines 63-72: one turn of the loop over zip(scores, boxes); mMasks gets the
\* object mask_image refers to, 0 for None
PredictStep ==
    /\ Len(mResult) < Len(mDets)
    /\ LET det == mDets[Len(mResult) + 1]
           res == YoLoResult(mStore[1], det, mFlag)
           objects == MaskObjects(mStore, mStore[1], res.box)
       IN  /\ mResult' = Append(mResult, res)
           /\ mStore' = IF mFlag THEN objects ELSE mStore
           /\ mMasks' = Append(mMasks, IF mFlag THEN Len(objects) ELSE 0)
    /\ UNCHANGED <<mSrc, mDets, mFlag>>
    /\ UNCHANGED restoreVars

MaskNext == PredictStep

MaskSpec == MaskInit /\ [][MaskNext]_vars


\* ================================================================ claims
\* the context and the overlay option are what they were when the call started
ContextAsBefore ==
    /\ p = pre.p
    /\ p_cls = pre.cls
    /\ opts.mask_apply_overlay = pre.overlay

\* the passes of the current call that produced at least one image, before pass k
ProducedBefore(k) == {j \in 1..(k - 1) : log[j].returned /\ HasImages(log[j].out)}

Last(S) == CHOOSE j \in S : \A i \in S : i <= j

\* exact comparison of a relative size with the two thresholds
AtLeastMin(size) == size.num * 10000 >= 2 * size.den
AboveMin(size)   == size.num * 10000 > 2 * size.den
AtMostMax(size)  == size.num * 10 <= 8 * size.den

\* the faces of the current call for which a pipeline pass was invoked
PassedFaces == {log[k].face : k \in 1..Len(log)}

\* C1: when a pipeline pass raises, the caller sees the context back at its
\* original class and field values and the overlay option at its pre-call value.
C1_CleanupBeforeFailure == pc = "raised" => ContextAsBefore

C3_TerminalResult ==
    pc = "done" =>
        LET produced == ProducedBefore(Len(log) + 1)
        IN  IF produced = {}
            THEN ret = pre.np
            ELSE ret = NpArray(log[Last(produced)].out.images.items[1])

\* C4: every pass is given, as its only input image, the first output image
\* of the most recent earlier pass that produced one, and the original input
\* image when no earlier pass produced one.
C4_SequentialChaining ==
    \A k \in 1..Len(log) :
        LET produced == ProducedBefore(k)
        IN  log[k].ctx.init_images =
                ListOf(<< IF produced = {}
                          THEN FromArray(pre.np)
                          ELSE log[Last(produced)].out.images.items[1] >>)

C4_Witness ==
    /\ Len(log) = 2
    /\ HasImages(log[1].out)
    /\ Len(log[1].out.images.items) = 2
    /\ log[2].ctx.init_images = ListOf(<<log[1].out.images.items[1]>>)
    /\ log[2].ctx.init_images # ListOf(<<FromArray(pre.np)>>)

\* C5: a call made while the guard is set returns its argument, invokes
\* neither loader, detector nor pipeline, and leaves context and option alone.
C5_ReentrancyGuard ==
    (pc \in {"done", "raised"} /\ HasAttr(pre.p, "facehires")) =>
        /\ pc = "done"
        /\ ret = pre.np
        /\ log = <<>>
        /\ nLoad = 0
        /\ nPredict = 0
        /\ ContextAsBefore

C5_Witness ==
    /\ pc = "done"
    /\ HasAttr(pre.p, "facehires")
    /\ pre.np = InputImg
    /\ model # "None"

\* C6 (as stated): the accept range is exclusive at 0.0002 and inclusive at
\* 0.8: once the loop is over, the faces that got a pass are those with
\* 0.0002 < relativeSize <= 0.8.
C6_ExclusiveLowerBound ==
    (pc = "done" /\ nPredict = 1) =>
        PassedFaces = {i \in 1..Len(faces) :
                          AboveMin(faces[i].size) /\ AtMostMax(faces[i].size)}

\* C6 (amended): the accept range is inclusive at both bounds: once the loop
\* is over, the faces that got a pass are those with
\* 0.0002 <= relativeSize <= 0.8.
C6_InclusiveBounds ==
    (pc = "done" /\ nPredict = 1) =>
        PassedFaces = {i \in 1..Len(faces) :
                          AtLeastMin(faces[i].size) /\ AtMostMax(faces[i].size)}

C6_Witness ==
    /\ pc = "done"
    /\ Len(faces) = 2
    /\ PassedFaces = {2}
    /\ faces[2].size = [num |-> 2, den |-> 10000]
    /\ faces[1].size = [num |-> 1, den |-> 10000]

\* the raw detections whose truncated box covers between 0.0002 and 0.8 of
\* the input image
RawAccepted(det) ==
    LET size == RelSize(FromArray(pre.np), TruncBox(det.xyxy))
    IN  AtLeastMin(size) /\ AtMostMax(size)

\* C7: with no failing pass, the pipeline is invoked once per accepted
\* detection, in the order in which the detector yielded them; detections the
\* filter rejects get no pass and leave the pass count alone.
C7_OncePerAcceptedInOrder ==
    (pc \in {"loop", "done"} /\ nPredict = 1) =>
        LET seen     == SubSeq(raw.dets, 1, idx - 1)
            accepted == SelectSeq(seen, RawAccepted)
        IN  /\ Len(log) = Len(accepted)
            /\ \A k \in 1..Len(log) :
                  log[k].ctx.image_mask =
                      ListOf(<<BuildMask(FromArray(pre.np),
                                         TruncBox(accepted[k].xyxy))>>)

C7_Witness ==
    /\ pc = "done"
    /\ Len(raw.dets) = 2
    /\ Len(log) = 2
    /\ raw.dets[1].conf < raw.dets[2].conf
    /\ log[1].ctx.image_mask # log[2].ctx.image_mask

\* C8: when the detector yields no detection, restore() returns the original
\* image, invokes no pass and leaves the context (no guard, no class switch,
\* no field written) and the overlay option as they were.
C8_ZeroDetections ==
    (pc \in {"done", "raised"} /\ nPredict = 1 /\ raw.dets = <<>>) =>
        /\ pc = "done"
        /\ ret = pre.np
        /\ log = <<>>
        /\ ~HasAttr(p, "facehires")
        /\ ContextAsBefore

C8_Witness ==
    /\ pc = "done"
    /\ nPredict = 1
    /\ raw.hasBoxes
    /\ raw.dets = <<>>
    /\ ret = InputImg

\* C9: when the loader yields no matching file, restore() does not raise,
\* returns the original image, invokes neither detector nor pipeline and
\* leaves the context and the overlay option as they were.
C9_ModelUnavailable ==
    (pc \in {"done", "raised"} /\ nLoad = 1 /\ model = "None") =>
        /\ pc = "done"
        /\ ret = pre.np
        /\ nPredict = 0
        /\ log = <<>>
        /\ ContextAsBefore

C9_Witness ==
    /\ pc = "done"
    /\ nLoad = 1
    /\ model = "None"
    /\ ret = InputImg
    /\ calls = 2

\* C10: a call with a null image returns null and changes nothing: context,
\* overlay option and loaded model are as before and neither loader, detector
\* nor pipeline is invoked, with or without the guard set.
C10_NullImage ==
    (pc \in {"done", "raised"} /\ pre.np = NoneImg) =>
        /\ pc = "done"
        /\ ret = NoneImg
        /\ ContextAsBefore
        /\ model = pre.model
        /\ nLoad = 0
        /\ nPredict = 0
        /\ log = <<>>

C10_Witness ==
    /\ pc = "done"
    /\ pre.np = NoneImg
    /\ HasAttr(pre.p, "facehires")

C10_WitnessNoGuard ==
    /\ pc = "done"
    /\ pre.np = NoneImg
    /\ ~HasAttr(pre.p, "facehires")
    /\ model # "None"

\* C11: the guard is on the context during every pipeline invocation, so a
\* restore() call made by a running pass returns at once: no pipeline
\* invocation is ever nested inside another, and outside a pass none is on
\* the stack.
C11_GuardDuringPasses ==
    /\ pc = "pipeline" => (HasAttr(p, "facehires") /\ depth = 1)
    /\ pc # "pipeline" => (depth = 0 /\ nested = 0)
    /\ \A k \in 1..Len(log) : HasAttr(log[k].ctx, "facehires")

C11_Witness ==
    /\ pc = "pipeline"
    /\ nested = 1
    /\ depth = 1
    /\ Len(log) = 2
    /\ ~HasAttr(pre.p, "facehires")

\* C12: whenever restore() invokes the pipeline, the overlay option is
\* enabled and the context is of the img2img class, whatever the option and
\* the class were before the call.
C12_OverlayAndClassDuringPasses ==
    /\ pc = "pipeline" =>
          /\ opts.mask_apply_overlay
          /\ p_cls = "StableDiffusionProcessingImg2Img"
    /\ \A k \in 1..Len(log) :
          /\ log[k].overlay
          /\ log[k].cls = "StableDiffusionProcessingImg2Img"

C12_Witness ==
    /\ pc = "pipeline"
    /\ Len(log) = 2
    /\ ~pre.overlay
    /\ pre.cls = "StableDiffusionProcessingTxt2Img"
    /\ opts.mask_apply_overlay
    /\ p_cls = "StableDiffusionProcessingImg2Img"

\* the settings a pass must see, read from a configured context
RegionSettings(c) ==
    [present |-> {"image_mask", "inpaint_full_res", "inpainting_mask_invert",
                  "inpainting_fill", "denoising_strength", "mask_blur",
                  "inpaint_full_res_padding", "restore_faces"} \subseteq c.has,
     mask |-> c.image_mask, full_res |-> c.inpaint_full_res,
     invert |-> c.inpainting_mask_invert, fill |-> c.inpainting_fill,
     strength |-> c.denoising_strength, blur |-> c.mask_blur,
     padding |-> c.inpaint_full_res_padding, restore_faces |-> c.restore_faces]

\* C13: every pipeline invocation sees the current detection's mask, full
\* resolution inpainting on, mask inversion off, fill mode 1, blur 10, padding
\* 15, restore_faces true and the caller's pre-call denoising strength (0.3
\* if the caller had none), whatever earlier passes wrote into the context.
C13_SameSettingsEveryPass ==
    /\ \A k \in 1..Len(log) :
          RegionSettings(log[k].ctx) =
              [present |-> TRUE,
               mask |-> ListOf(<<faces[log[k].face].mask>>),
               full_res |-> TRUE, invert |-> 0, fill |-> 1,
               strength |-> IF HasAttr(pre.p, "denoising_strength")
                            THEN pre.p.denoising_strength ELSE 30,
               blur |-> 10, padding |-> 15, restore_faces |-> TRUE]
    /\ pc = "pipeline" => p = log[Len(log)].ctx

\* the first pass overwrote the settings and a second pass has been configured
C13_Witness ==
    /\ pc = "pipeline"
    /\ Len(log) = 2
    /\ log[1].returned
    /\ log[1].face # log[2].face
    /\ pre.p.mask_blur = 4
    /\ pre.p.denoising_strength = 50
    /\ p.denoising_strength = 50
    /\ p.mask_blur = 10

\* a pass has overwritten the settings and another detection is about to be
\* configured
C13_OverwrittenBeforeNextPass ==
    /\ pc = "loop"
    /\ Len(log) = 1
    /\ idx <= Len(faces)
    /\ ~Rejected(faces[idx])
    /\ p.denoising_strength = 75
    /\ p.mask_blur = 4
    /\ ~p.inpaint_full_res

\* C14: the backup is a deep copy: when a pass changes in place an object a
\* context field refers to, that field's value after restore() has returned is
\* still what it was before the call.
C14_SnapshotIsDeep ==
    pc = "done" => Deref(p, heap) = Deref(pre.p, pre.heap)

\* the faces the loop has dealt with so far
Handled == 1..(IF pc \in {"pipeline", "returned", "raised"} THEN idx ELSE idx - 1)

\* C15: a detection gets a pipeline pass iff its mask is present and its
\* relative size is neither below 0.0002 nor above 0.8; no pass is ever invoked
\* with an absent mask or for a size outside that range.
C15_FilterDecidesPasses ==
    nPredict = 1 =>
        /\ \A k \in 1..Len(log) :
              /\ ~log[k].ctx.image_mask.none
              /\ \A i \in 1..Len(log[k].ctx.image_mask.items) :
                    log[k].ctx.image_mask.items[i].present
        /\ \A i \in Handled \cap (1..Len(faces)) :
              i \in PassedFaces <=>
                  /\ faces[i].mask.present
                  /\ ~(faces[i].size.num * 10000 < 2 * faces[i].size.den)
                  /\ ~(faces[i].size.num * 10 > 8 * faces[i].size.den)

\* a too large detection was skipped and an in-range one got its pass
C15_Witness ==
    /\ pc = "done"
    /\ Len(faces) = 2
    /\ faces[1].size = [num |-> 8100, den |-> 10000]
    /\ faces[2].size = [num |-> 8000, den |-> 10000]
    /\ PassedFaces = {2}
    /\ log[1].ctx.image_mask = ListOf(<<faces[2].mask>>)

\* C16: after each pass the context's overlay_images is cleared before the next
\* pass starts: every pass after the first starts with overlay_images = None,
\* whether or not the previous pass produced an output image.
C16_OverlayClearedBetweenPasses ==
    /\ \A k \in 2..Len(log) :
          /\ HasAttr(log[k].ctx, "overlay_images")
          /\ log[k].ctx.overlay_images = NoneList
    /\ (pc = "loop" /\ Len(log) >= 1) =>
          (HasAttr(p, "overlay_images") /\ p.overlay_images = NoneList)

\* a second pass starts with nothing in overlay_images although the first pass
\* started with the caller's overlays and produced no output image
C16_Witness ==
    /\ pc = "pipeline"
    /\ Len(log) = 2
    /\ log[1].ctx.overlay_images # NoneList
    /\ ~HasImages(pp)
    /\ log[2].ctx.overlay_images = NoneList

\* C17: a pass that raises is not recovered: the call ends in the exception,
\* hands no image back, and no pass is invoked after the one that raised.
C17_RaiseNotRecovered ==
    /\ \A k \in 1..Len(log) :
          ~log[k].returned => (k = Len(log) /\ pc \in {"pipeline", "raised"})
    /\ pc = "raised" =>
          /\ Len(log) >= 1
          /\ ~log[Len(log)].returned
          /\ log[Len(log)].face = idx
          /\ ret = NoneImg

\* the first pass raised while an acceptable detection was still waiting
C17_Witness ==
    /\ pc = "raised"
    /\ Len(log) = 1
    /\ idx = 1
    /\ Len(faces) = 2
    /\ ~Rejected(faces[2])
    /\ ret = NoneImg

\* C18: the guard does not outlive a call that reached the loop and returned:
\* the context is then without the guard, and the next top-level call on it
\* does not short-circuit on the guard but gives every acceptable detection its
\* pass again.
C18_GuardDoesNotLeak ==
    /\ (pc = "done" /\ Ended = "restored") => ~HasAttr(p, "facehires")
    /\ (last = "restored" /\ pc = "idle") => ~HasAttr(p, "facehires")
    /\ (last = "restored" /\ pc # "idle") => ~HasAttr(pre.p, "facehires")
    /\ (last = "restored" /\ pc = "done" /\ nPredict = 1) =>
          \A i \in 1..Len(faces) : ~Rejected(faces[i]) => i \in PassedFaces

\* the second call on the context runs a pass after the first one ran passes
\* and returned
C18_Witness ==
    /\ last = "restored"
    /\ calls = 2
    /\ pc = "pipeline"
    /\ Len(log) = 1
    /\ ~HasAttr(pre.p, "facehires")
    /\ HasAttr(p, "facehires")

\* C19: the loader is asked exactly by the calls that get past the guard test
\* while no model is loaded; a loaded model is kept and never loaded again, and
\* a call that follows a failed load asks the loader again.
C19_LazyLoading ==
    /\ pc # "idle" =>
          /\ nLoad = (IF pre.model = "None" /\ ~ShortCircuit(pre.np, pre.p) THEN 1 ELSE 0)
          /\ pre.model # "None" => model = pre.model
    /\ (last = "load failed" /\ pc = "idle") => model = "None"
    /\ (last = "load failed" /\ pc # "idle" /\ ~ShortCircuit(pre.np, pre.p)) => nLoad = 1

\* the second call detects with the model the first call loaded, without
\* asking the loader
C19_Witness ==
    /\ calls = 2
    /\ pc = "done"
    /\ pre.model # "None"
    /\ model = pre.model
    /\ nLoad = 0
    /\ nPredict = 1

\* the second call asks the loader again after the first call's load failed
C19_WitnessRetry ==
    /\ calls = 2
    /\ last = "load failed"
    /\ pc = "done"
    /\ nLoad = 1
    /\ model # "None"

\* C20: every mask predict() has built is an object of its own, a mode-L image
\* of the source image's width and height whose pixel (x, y) is 255 when
\* box[0] <= x <= box[2] and box[1] <= y <= box[3] and 0 otherwise, and the
\* source image is as it was given.
C20_MaskPixels ==
    /\ mStore # <<>> => mStore[1] = mSrc
    /\ \A k \in 1..Len(mMasks) :
          mFlag =>
            LET g == mStore[mMasks[k]]
                b == mResult[k].box
            IN  /\ mMasks[k] # 1
                /\ \A j \in 1..Len(mMasks) : j # k => mMasks[j] # mMasks[k]
                /\ mResult[k].mask = BuildMask(mSrc, b)
                /\ g.mode = "L"
                /\ g.w = mSrc.w /\ g.h = mSrc.h
                /\ DOMAIN g.px = Pixels(mSrc.w, mSrc.h)
                /\ \A xy \in Pixels(mSrc.w, mSrc.h) :
                      g.px[xy] = IF /\ b[1] <= xy[1] /\ xy[1] <= b[3]
                                    /\ b[2] <= xy[2] /\ xy[2] <= b[4]
                                 THEN 255 ELSE 0

\* two masks on a 3x2 image: a row cut off at the right edge and a column, each
\* on its own canvas
C20_Witness ==
    /\ mFlag
    /\ mSrc.w = 3 /\ mSrc.h = 2
    /\ Len(mMasks) = 2
    /\ mResult[1].box = <<0, 1, MaxSide, 1>>
    /\ mResult[2].box = <<1, 0, 1, MaxSide - 1>>
    /\ mStore[mMasks[1]].px[<<2, 1>>] = 255
    /\ mStore[mMasks[1]].px[<<1, 0>>] = 0
    /\ mStore[mMasks[2]].px[<<1, 0>>] = 255
    /\ mStore[mMasks[2]].px[<<2, 1>>] = 0

====
